---------------------------- MODULE Spec2Model ----------------------------
(***************************************************************************)
(* A model of pine_assistant/chat.py: ChatEngine._listen (the session      *)
(* event listener), ChatEngine.chat (send, listen, drop stale events) and   *)
(* ChatEngine._is_stale_event (the stale filter).                           *)
(*                                                                         *)
(* The async generator _listen is a coroutine whose position is pc.  Every  *)
(* action runs the code from one suspension point (an await or a yield) to  *)
(* the next, as the single-threaded event loop does.  The transport's       *)
(* dispatch (Deliver) runs the observer callback synchronously between two  *)
(* such steps.                                                              *)
(*                                                                         *)
(* The consumer drives the generator with anext (Pull), may close it at a   *)
(* yield (Close: aclose, or the finalisation of an abandoned generator,     *)
(* GeneratorExit at the yield) and may be cancelled while the generator     *)
(* awaits (Cancel: CancelledError at the await).  Both are BaseException    *)
(* and pass the "except Exception" clauses of the code.                     *)
(*                                                                         *)
(* Spec is one call of _listen or chat(); FairSpec adds the scheduling of   *)
(* the event loop; SpecStale is the stale filter on its own inputs;         *)
(* SpecTwo is two calls of _listen on one transport.                        *)
(***************************************************************************)
EXTENDS Integers, Sequences, FiniteSets, TLC

\* ------------------------------------------------------------------ bounds

\* Inbound raw events the transport dispatches in one run.
MaxEvents == 3

\* Timed dequeues that end in a timeout in one run.
MaxTimeouts == 2

\* ------------------------------------------------------- program constants

\* S2CEvent tags used by the listener (the wire names are in models/events).
SESSION_TEXT_PART == "session:text_part"
SESSION_WORK_LOG == "session:work_log"
SESSION_INPUT_STATE == "session:input_state"
SESSION_STATE == "session:state"

TERMINAL_STATES == {"task_finished", "task_cancelled", "task_stale"}

\* The substantive types among the modelled tags (SESSION_TEXT_PART stands
\* for the nine members of SUBSTANTIVE_EVENTS, SESSION_WORK_LOG for the rest).
SUBSTANTIVE_EVENTS == {SESSION_TEXT_PART}

\* timedelta(seconds=5) of chat()
GraceSeconds == 5

\* datetime.now(timezone.utc) at the call of chat(), in seconds.
SendTime == 100000

\* The session id every call of the model asks for, and another session's.
SessionId == "s1"
OtherSession == "s2"

\* ------------------------------------------------------------- timestamps

\* A metadata["timestamp"] value.  kind: "str" (a string), "empty" (""),
\* "int" (a non-string truthy value), "zero" (a non-string falsy value).
\* A string is its date-time part (wf: well formed; t: the seconds it
\* reads as) and its suffix off: "Z", "+00:00", "+01:00" or "" (no offset).
NoTs == [kind |-> "zero", wf |-> FALSE, t |-> 0, off |-> ""]
EmptyTs == [kind |-> "empty", wf |-> FALSE, t |-> 0, off |-> ""]
IntTs == [kind |-> "int", wf |-> FALSE, t |-> 0, off |-> ""]
BadTs == [kind |-> "str", wf |-> FALSE, t |-> 0, off |-> ""]
StrTs(t, off) == [kind |-> "str", wf |-> TRUE, t |-> t, off |-> off]

\* event.metadata: not a dict (None), a dict without "timestamp", or a dict
\* with it.
NoMeta == [isDict |-> FALSE, hasTs |-> FALSE, ts |-> NoTs]
MetaNoTs == [isDict |-> TRUE, hasTs |-> FALSE, ts |-> NoTs]
MetaTs(ts) == [isDict |-> TRUE, hasTs |-> TRUE, ts |-> ts]

\* str.replace("Z", "+00:00") on the suffix of a timestamp string.
ReplaceZNoop(ts) == ts
ReplaceZ(ts) == IF ts.off = "Z" THEN [ts EXCEPT !.off = "+00:00"] ELSE ts

OffsetSeconds(off) == IF off = "+01:00" THEN 3600 ELSE 0

\* datetime.fromisoformat: ValueError for a malformed string and for a "Z"
\* suffix (the grammar before Python 3.11, which the replace is there for);
\* a naive datetime for a string without offset, else an aware one, whose
\* instant is the local reading minus the offset.
FromIsoFormat(ts) ==
    IF ~ts.wf \/ ts.off = "Z"
    THEN [ok |-> FALSE, aware |-> FALSE, instant |-> 0]
    ELSE [ok |-> TRUE, aware |-> ts.off # "",
          instant |-> ts.t - OffsetSeconds(ts.off)]

\* event_ts < cutoff, the cutoff an aware datetime: TypeError for a naive
\* event_ts, which the except clause turns into False.
Earlier(dt, cutoff) == dt.aware /\ dt.instant < cutoff

\* ChatEngine._is_stale_event: "true", "false", or "raise" where the code
\* raises (AttributeError of a non-string truthy timestamp has no handler).
IsStaleEvent(meta, cutoff) ==
    IF ~meta.isDict THEN "false"
    ELSE IF ~meta.hasTs \/ meta.ts.kind \in {"empty", "zero"} THEN "false"
    ELSE IF meta.ts.kind # "str" THEN "raise"
    ELSE LET dt == FromIsoFormat(ReplaceZ(meta.ts))
         IN  IF ~dt.ok THEN "false"
             ELSE IF Earlier(dt, cutoff) THEN "true" ELSE "false"


\* ----------------------------------------------------------------- events

\* payload["data"]: a dict with its "content" ("" when the key is absent),
\* or anything else (None, a list, ...).
NoData == [isDict |-> FALSE, content |-> ""]
Dict(c) == [isDict |-> TRUE, content |-> c]

\* ChatEvent(type, session_id, data, message_id, metadata); message_id 0 is
\* None.
ChatEvent(type, sid, data, mid, meta) ==
    [type |-> type, session_id |-> sid, message_id |-> mid, data |-> data,
     metadata |-> meta]

\* None, the stop sentinel of the queue (asyncio.Queue[Optional[ChatEvent]]).
None == [type |-> "None", session_id |-> "", message_id |-> 0,
         data |-> NoData, metadata |-> NoMeta]

\* The raw envelope handed to the observer with its event type:
\* {payload: {session_id, message_id, data}, metadata}.  sid "" is a missing,
\* null or empty session_id.
RawEvent(type, sid, mid, data, meta) ==
    [type |-> type, sid |-> sid, mid |-> mid, data |-> data, meta |-> meta]

\* The (type, data) shapes the transport dispatches in the model.
ListenShapes ==
    { <<SESSION_TEXT_PART, Dict("hello")>>,
      <<SESSION_WORK_LOG, Dict("hello")>>,
      <<SESSION_INPUT_STATE, Dict("waiting_input")>>,
      <<SESSION_INPUT_STATE, NoData>>,
      <<SESSION_STATE, Dict("task_finished")>>,
      <<SESSION_STATE, Dict("working")>> }

ChatShapes ==
    { <<SESSION_TEXT_PART, Dict("hello")>>,
      <<SESSION_STATE, Dict("task_finished")>> }

\* The envelope session ids of the events of a listen call and a chat call.
ListenSids == {SessionId, OtherSession, ""}
ChatSids == {SessionId, OtherSession}

\* Envelope metadata of the events of a listen call (the listener carries
\* it through unread) and of a chat call: no metadata, and timestamps 24 h
\* before the send, 3 s before it (inside the grace window) and 1 s after.
ListenMetas == {NoMeta}
ChatMetas ==
    { NoMeta,
      MetaTs(StrTs(SendTime - 86400, "Z")),
      MetaTs(StrTs(SendTime - 3, "Z")),
      MetaTs(StrTs(SendTime + 1, "Z")) }

\* What the state-query collaborator answers: a session state, or "error"
\* when the query raises.
QueryResults == {"task_stale", "working", "error"}

\* ------------------------------------------------------------------ state

VARIABLES
    mode,        \* "listen": _listen called directly; "chat": through chat()
    skip,        \* _skip_state_precheck
    hasCheck,    \* self._check_session_state is configured
    pc,          \* position of the _listen coroutine
    hold,        \* at a yield: who has the yielded event
    queue,       \* queue (line 155)
    done,        \* done (line 156)
    received,    \* received_agent_response (line 157)
    registered,  \* the transport holds the observer
    addCount,    \* calls of add_event_handler
    removeCount, \* calls of remove_handler
    cutoff,      \* chat(): cutoff
    emitted,     \* chat(): calls of sio.emit
    nDelivered,  \* raw events dispatched by the transport so far
    accepted,    \* ChatEvents the observer enqueued, in order
    late,        \* message ids of those enqueued after the main loop ended
    missed,      \* message ids dispatched while the precheck query was pending
    foreign,     \* the events of another session dispatched to the observer
    preAnswer,   \* what the precheck query answered ("" before it does)
    pollAnswer,  \* what the last re-poll query answered
    polls,       \* re-poll queries answered
    yielded,     \* what _listen yielded: [src, ev], in order
    chatYielded, \* what chat() yielded, in order
    timeouts,    \* timed dequeues that timed out
    timeout,     \* timeout (line 188) of the last timed dequeue begun
    exitBy,      \* how the call left its main loop or ended
    stMeta,      \* stale filter: the event's metadata
    stCutoff,    \* stale filter: the cutoff
    stResult,    \* stale filter: the result
    calls,       \* two listen calls on one transport: each call's locals
    log          \* two listen calls: the envelopes dispatched, and to whom

vars == <<mode, skip, hasCheck, pc, hold, queue, done, received, registered,
          addCount, removeCount, cutoff, emitted, nDelivered, accepted,
          late, missed, foreign, preAnswer, pollAnswer, polls, yielded, chatYielded,
          timeouts, timeout, exitBy, stMeta, stCutoff, stResult, calls,
          log>>

cfgVars == <<mode, skip, hasCheck>>
lstVars == <<queue, done, received>>
trVars == <<registered, addCount, removeCount>>
chatVars == <<cutoff, emitted>>
dispVars == <<nDelivered, accepted, late, missed, foreign>>
qryVars == <<preAnswer, pollAnswer, polls>>
staleVars == <<stMeta, stCutoff, stResult>>
twoVars == <<calls, log>>

YieldStates == {"preyield", "yield", "repollyield", "drainyield"}
AwaitStates == {"precheck", "wait", "repoll"}


\* --------------------------------------------------- the observer (handler)

\* A filter that wants the envelope to name the session.
DiscardsAbsent(raw) == raw.sid # SessionId

\* Line 163: the envelope's session id is present and is another session's.
DiscardsNothing(raw) == FALSE
Discards(raw) == raw.sid # "" /\ raw.sid # SessionId

\* Lines 166-171: the event the observer enqueues.
HandlerEvent(event, raw) ==
    ChatEvent(event, SessionId, raw.data, raw.mid, raw.meta)

\* waiting_input as a stop whether or not a response was received.
InputStopAlways(event, raw, rcv) ==
    /\ event = SESSION_INPUT_STATE
    /\ raw.data.isDict
    /\ raw.data.content = "waiting_input"

\* Lines 174-175: waiting_input after a substantive event.
InputStop(event, raw, rcv) ==
    /\ event = SESSION_INPUT_STATE
    /\ raw.data.isDict
    /\ raw.data.content = "waiting_input"
    /\ rcv

\* Lines 178-180: an explicit terminal session state.
StateStop(event, raw) ==
    /\ event = SESSION_STATE
    /\ raw.data.isDict
    /\ raw.data.content \in TERMINAL_STATES

\* A handler that buffers: a fragment following a fragment of its type
\* replaces it in the queue.
HandlerCoalesce(ls, event, raw) ==
    IF raw.sid # "" /\ raw.sid # SessionId THEN ls
    ELSE LET n == Len(ls.queue)
             e == ChatEvent(event, SessionId, raw.data, raw.mid, raw.meta)
             merge == /\ n > 0
                      /\ event = SESSION_TEXT_PART
                      /\ ls.queue[n].type = event
             q1 == IF merge THEN [ls.queue EXCEPT ![n] = e]
                   ELSE Append(ls.queue, e)
             rcv == ls.received \/ event \in SUBSTANTIVE_EVENTS
             s1 == /\ event = SESSION_INPUT_STATE /\ raw.data.isDict
                   /\ raw.data.content = "waiting_input" /\ rcv
             s2 == /\ event = SESSION_STATE /\ raw.data.isDict
                   /\ raw.data.content \in TERMINAL_STATES
             q2 == IF s1 \/ s2 THEN Append(q1, None) ELSE q1
         IN  [queue |-> q2, done |-> ls.done \/ s1 \/ s2, received |-> rcv]

\* A handler that applies the stale filter itself: a stale event is not
\* enqueued and sets nothing.
HandlerSkipsStale(ls, event, raw) ==
    IF Discards(raw) \/ IsStaleEvent(raw.meta, cutoff) = "true" THEN ls
    ELSE LET q1 == Append(ls.queue, HandlerEvent(event, raw))
             rcv == ls.received \/ event \in SUBSTANTIVE_EVENTS
             s1 == InputStop(event, raw, rcv)
             q2 == IF s1 THEN Append(q1, None) ELSE q1
             s2 == StateStop(event, raw)
             q3 == IF s2 THEN Append(q2, None) ELSE q2
         IN  [queue |-> q3, done |-> ls.done \/ s1 \/ s2, received |-> rcv]

\* handler(event, raw), lines 159-182, on the listener's state
\* ls = [queue, done, received].
Handler(ls, event, raw) ==
    IF Discards(raw) THEN ls
    ELSE LET q1 == Append(ls.queue, HandlerEvent(event, raw))
             rcv == ls.received \/ event \in SUBSTANTIVE_EVENTS
             s1 == InputStop(event, raw, rcv)
             q2 == IF s1 THEN Append(q1, None) ELSE q1
             s2 == StateStop(event, raw)
             q3 == IF s2 THEN Append(q2, None) ELSE q2
         IN  [queue |-> q3, done |-> ls.done \/ s1 \/ s2, received |-> rcv]

\* ------------------------------------------------------ pieces of _listen

\* chat(), line 100: the cutoff, from datetime.now(timezone.utc).
ChatCutoffNoGrace(now) == now
ChatCutoff(now) == now - GraceSeconds

\* Line 146: whether _listen queries the session state before it registers.
RunsPrecheckAlways(skipPrecheck, check) == check
RunsPrecheck(skipPrecheck, check) == ~skipPrecheck /\ check

\* Lines 150 and 198: the synthesized session-state event.
Synth(state) == ChatEvent(SESSION_STATE, SessionId, Dict(state), 0, NoMeta)

\* Line 188: the timeout of a timed dequeue, from received_agent_response
\* as the wait begins.
WaitTimeoutIdle(rcv) == "idle"
WaitTimeout(rcv) == IF rcv THEN "response_idle" ELSE "idle"

\* The drain loop, lines 206-209, up to its next yield: the queue from its
\* first event on, the sentinels before it dropped.
KeepSentinels(q) == q
RECURSIVE SkipSentinels(_)
SkipSentinels(q) ==
    IF q = <<>> THEN <<>>
    ELSE IF Head(q) = None THEN SkipSentinels(Tail(q))
    ELSE q

\* A yield of _listen: the event goes to the consumer, or in chat() to the
\* stale filter first.
Yield(ev, src) ==
    /\ yielded' = Append(yielded, [src |-> src, ev |-> ev])
    /\ hold' = IF mode = "chat" THEN "filter" ELSE "consumer"

\* Lines 155-157 and 184: the listener's state is created and the observer
\* registered.
Register ==
    /\ queue' = <<>>
    /\ done' = FALSE
    /\ received' = FALSE
    /\ registered' = TRUE
    /\ addCount' = addCount + 1

\* Lines 210-211: finally: remove_handler().
Finally ==
    /\ removeCount' = removeCount + 1
    /\ registered' = FALSE
    /\ addCount' = addCount

\* An end of the loop that drops what is still queued.
DrainNothing(q) ==
    /\ queue' = <<>>
    /\ pc' = "closed"
    /\ hold' = "none"
    /\ Finally
    /\ UNCHANGED <<yielded, timeout>>

\* Lines 206-211 from the queue q: yield its next event, or end.
Drain(q) ==
    LET r == SkipSentinels(q)
    IN  IF r = <<>>
        THEN /\ queue' = <<>>
             /\ pc' = "closed"
             /\ hold' = "none"
             /\ Finally
             /\ UNCHANGED <<yielded, timeout>>
        ELSE /\ queue' = Tail(r)
             /\ pc' = "drainyield"
             /\ Yield(Head(r), "observer")
             /\ UNCHANGED <<trVars, timeout>>

\* A loop that waits again whatever done is.
LoopTestIgnoresDone ==
    /\ pc' = "wait"
    /\ timeout' = WaitTimeout(received)
    /\ hold' = "none"
    /\ UNCHANGED <<queue, yielded, trVars>>

\* Lines 187-190: the test of "while not done" and, when it passes, the
\* next timed dequeue.
LoopTest ==
    IF done
    THEN Drain(queue)
    ELSE /\ pc' = "wait"
         /\ timeout' = WaitTimeout(received)
         /\ hold' = "none"
         /\ UNCHANGED <<queue, yielded, trVars>>

\* Resume without the return of line 151: after the synthesized event the
\* call goes on to register and listen.
ResumeNoReturn ==
    /\ pc \in YieldStates
    /\ IF pc = "preyield"
       THEN /\ Register
            /\ removeCount' = removeCount
            /\ pc' = "wait"
            /\ timeout' = WaitTimeout(FALSE)
            /\ hold' = "none"
            /\ UNCHANGED <<yielded, exitBy>>
       ELSE IF pc = "yield"
       THEN /\ LoopTest
            /\ exitBy' = IF done THEN "done" ELSE exitBy
            /\ UNCHANGED <<done, received>>
       ELSE /\ Drain(queue)
            /\ UNCHANGED <<exitBy, done, received>>
    /\ UNCHANGED <<cfgVars, chatVars, dispVars, chatYielded, timeouts,
                   staleVars, twoVars, qryVars>>

\* The generator resumed at its yield: line 151 (return), line 205 (back to
\* the loop test), line 199 (break), line 209 (the drain loop).
Resume ==
    /\ pc \in YieldStates
    /\ IF pc = "preyield"
       THEN /\ pc' = "closed"
            /\ hold' = "none"
            /\ exitBy' = "precheck"
            /\ UNCHANGED <<queue, yielded, trVars, timeout>>
       ELSE IF pc = "yield"
       THEN /\ LoopTest
            /\ exitBy' = IF done THEN "done" ELSE exitBy
       ELSE /\ Drain(queue)
            /\ UNCHANGED exitBy
    /\ UNCHANGED <<cfgVars, done, received, chatVars, dispVars, chatYielded,
                   timeouts, staleVars, twoVars, qryVars>>


\* ------------------------------------------------------------------ Init

Init ==
    /\ mode \in {"listen", "chat"}
    /\ skip \in BOOLEAN
    /\ hasCheck \in BOOLEAN
    /\ mode = "chat" => skip
    /\ pc = "init"
    /\ hold = "none"
    /\ queue = <<>>
    /\ done = FALSE
    /\ received = FALSE
    /\ registered = FALSE
    /\ addCount = 0
    /\ removeCount = 0
    /\ cutoff = 0
    /\ emitted = 0
    /\ nDelivered = 0
    /\ accepted = <<>>
    /\ late = {}
    /\ missed = {}
    /\ foreign = {}
    /\ preAnswer = ""
    /\ pollAnswer = ""
    /\ polls = 0
    /\ yielded = <<>>
    /\ chatYielded = <<>>
    /\ timeouts = 0
    /\ timeout = ""
    /\ exitBy = ""
    /\ stMeta = NoMeta
    /\ stCutoff = 0
    /\ stResult = "false"
    /\ calls = <<>>
    /\ log = <<>>

\* --------------------------------------------------------------- actions

\* A first step in which chat() awaits between its emit and the
\* registration of the observer.
StartAwaitsAfterEmit ==
    /\ pc = "init"
    /\ IF mode = "chat"
       THEN /\ cutoff' = ChatCutoff(SendTime)
            /\ emitted' = emitted + 1
       ELSE UNCHANGED chatVars
    /\ IF mode = "chat" \/ RunsPrecheck(skip, hasCheck)
       THEN /\ pc' = "precheck"
            /\ UNCHANGED <<lstVars, trVars, timeout>>
       ELSE /\ Register
            /\ removeCount' = removeCount
            /\ pc' = "wait"
            /\ timeout' = WaitTimeout(FALSE)
    /\ UNCHANGED <<cfgVars, hold, dispVars, yielded, chatYielded, timeouts,
                   exitBy, staleVars, twoVars, qryVars>>

\* The first anext.  chat(), lines 100-106: the cutoff, the emit, then the
\* call of _listen.  _listen, lines 146-148 or 155-190: to the precheck
\* query's await, or to the first timed dequeue.
Start ==
    /\ pc = "init"
    /\ IF mode = "chat"
       THEN /\ cutoff' = ChatCutoff(SendTime)
            /\ emitted' = emitted + 1
       ELSE UNCHANGED chatVars
    /\ IF RunsPrecheck(skip, hasCheck)
       THEN /\ pc' = "precheck"
            /\ UNCHANGED <<lstVars, trVars, timeout>>
       ELSE /\ Register
            /\ removeCount' = removeCount
            /\ pc' = "wait"
            /\ timeout' = WaitTimeout(FALSE)
    /\ UNCHANGED <<cfgVars, hold, dispVars, yielded, chatYielded, timeouts,
                   exitBy, staleVars, twoVars, qryVars>>

\* Lines 148-153: the precheck query answers r.
PrecheckReturn ==
    /\ pc = "precheck"
    /\ \E r \in QueryResults :
          /\ preAnswer' = r
          /\ IF r \in TERMINAL_STATES
             THEN /\ Yield(Synth(r), "synth")
                  /\ pc' = "preyield"
                  /\ UNCHANGED <<lstVars, trVars, timeout>>
             ELSE /\ Register
                  /\ removeCount' = removeCount
                  /\ pc' = "wait"
                  /\ timeout' = WaitTimeout(FALSE)
                  /\ UNCHANGED <<hold, yielded>>
    /\ UNCHANGED <<cfgVars, chatVars, dispVars, chatYielded, timeouts,
                   exitBy, staleVars, twoVars, pollAnswer, polls>>

\* The transport dispatches one inbound event: to the observer if it is
\* registered, to nobody otherwise.
Deliver ==
    /\ nDelivered < MaxEvents
    /\ hold \in {"none", "consumer"}
    /\ \E shape \in (IF mode = "chat" THEN ChatShapes ELSE ListenShapes),
          sid \in (IF mode = "chat" THEN ChatSids ELSE ListenSids),
          meta \in (IF mode = "chat" THEN ChatMetas ELSE ListenMetas) :
          LET event == shape[1]
              raw == RawEvent(event, sid, nDelivered + 1, shape[2], meta)
              ls == Handler([queue |-> queue, done |-> done,
                             received |-> received], event, raw)
          IN  /\ nDelivered' = nDelivered + 1
              /\ missed' = IF pc = "precheck"
                            THEN missed \cup {raw.mid}
                            ELSE missed
              /\ IF registered
                 THEN /\ queue' = ls.queue
                      /\ done' = ls.done
                      /\ received' = ls.received
                      /\ IF sid = OtherSession
                         THEN /\ foreign' = foreign \cup
                                     {[mid |-> raw.mid, type |-> event,
                                       data |-> raw.data]}
                              /\ UNCHANGED <<accepted, late>>
                         ELSE /\ accepted' = Append(accepted,
                                     [type |-> event, session_id |-> SessionId,
                                      message_id |-> raw.mid, data |-> raw.data,
                                      metadata |-> raw.meta])
                              /\ late' = IF pc \in {"repollyield", "drainyield"}
                                          THEN late \cup {raw.mid}
                                          ELSE late
                              /\ UNCHANGED foreign
                 ELSE UNCHANGED <<lstVars, accepted, late, foreign>>
    /\ UNCHANGED <<cfgVars, pc, hold, trVars, chatVars, yielded, chatYielded,
                   timeouts, timeout, exitBy, staleVars, twoVars, qryVars>>

\* Lines 190 and 203-205: the timed dequeue returns the head of the queue.
\* (The handler enqueues a sentinel right after an event and sets done with
\* it, so the loop test after that event's yield ends the loop before the
\* sentinel is at the head here; the branch is kept as the code has it.)
Dequeue ==
    /\ pc = "wait"
    /\ queue # <<>>
    /\ IF Head(queue) = None
       THEN /\ Drain(Tail(queue))
            /\ exitBy' = "sentinel"
       ELSE /\ queue' = Tail(queue)
            /\ pc' = "yield"
            /\ Yield(Head(queue), "observer")
            /\ UNCHANGED <<trVars, exitBy, timeout>>
    /\ UNCHANGED <<cfgVars, done, received, chatVars, dispVars, chatYielded,
                   timeouts, staleVars, twoVars, qryVars>>

\* A timeout that ends the loop whenever no state query is configured.
TimeoutGivesUp ==
    /\ pc = "wait"
    /\ queue = <<>>
    /\ received \/ timeouts < MaxTimeouts
    /\ timeouts' = timeouts + 1
    /\ IF received \/ ~hasCheck
       THEN /\ Drain(queue)
            /\ exitBy' = IF received THEN "response_idle" ELSE "idle"
       ELSE /\ pc' = "repoll"
            /\ UNCHANGED <<queue, hold, yielded, trVars, exitBy, timeout>>
    /\ UNCHANGED <<cfgVars, done, received, chatVars, dispVars, chatYielded,
                   staleVars, twoVars, qryVars>>

\* A timeout that never re-polls the session state.
TimeoutNoRepoll ==
    /\ pc = "wait"
    /\ queue = <<>>
    /\ received \/ timeouts < MaxTimeouts
    /\ timeouts' = timeouts + 1
    /\ IF received
       THEN /\ Drain(queue)
            /\ exitBy' = "response_idle"
       ELSE /\ LoopTest
            /\ UNCHANGED exitBy
    /\ UNCHANGED <<cfgVars, done, received, chatVars, dispVars, chatYielded,
                   staleVars, twoVars, qryVars>>

\* Lines 191-202: the timed dequeue times out: the queue stayed empty for
\* the idle timeout (no response yet) or the response-idle timeout.
Timeout ==
    /\ pc = "wait"
    /\ queue = <<>>
    /\ received \/ timeouts < MaxTimeouts
    /\ timeouts' = timeouts + 1
    /\ IF received
       THEN /\ Drain(queue)
            /\ exitBy' = "response_idle"
       ELSE IF hasCheck
       THEN /\ pc' = "repoll"
            /\ UNCHANGED <<queue, hold, yielded, trVars, exitBy, timeout>>
       ELSE /\ LoopTest
            /\ UNCHANGED exitBy
    /\ UNCHANGED <<cfgVars, done, received, chatVars, dispVars, chatYielded,
                   staleVars, twoVars, qryVars>>

\* A re-poll without the except clause: the query's error ends the call.
RepollReturnRaises ==
    /\ pc = "repoll"
    /\ \E r \in QueryResults :
          /\ pollAnswer' = r
          /\ IF r \in TERMINAL_STATES
             THEN /\ Yield(Synth(r), "synth")
                  /\ pc' = "repollyield"
                  /\ exitBy' = "repoll"
                  /\ UNCHANGED <<queue, trVars, timeout>>
             ELSE IF r = "error"
             THEN /\ pc' = "closed"
                  /\ exitBy' = "error"
                  /\ Finally
                  /\ UNCHANGED <<queue, hold, yielded, timeout>>
             ELSE /\ LoopTest
                  /\ exitBy' = IF done THEN "done" ELSE exitBy
    /\ polls' = polls + 1
    /\ UNCHANGED <<cfgVars, done, received, chatVars, dispVars, chatYielded,
                   timeouts, staleVars, twoVars, preAnswer>>

\* Lines 196-202: the re-poll query answers r.
RepollReturn ==
    /\ pc = "repoll"
    /\ \E r \in QueryResults :
          /\ pollAnswer' = r
          /\ IF r \in TERMINAL_STATES
             THEN /\ Yield(Synth(r), "synth")
                  /\ pc' = "repollyield"
                  /\ exitBy' = "repoll"
                  /\ UNCHANGED <<queue, trVars, timeout>>
             ELSE /\ LoopTest
                  /\ exitBy' = IF done THEN "done" ELSE exitBy
    /\ polls' = polls + 1
    /\ UNCHANGED <<cfgVars, done, received, chatVars, dispVars, chatYielded,
                   timeouts, staleVars, twoVars, preAnswer>>

\* chat(), lines 107-109: the stale filter on the event _listen yielded.
ChatFilter ==
    /\ hold = "filter"
    /\ LET r == IsStaleEvent(yielded[Len(yielded)].ev.metadata, cutoff)
       IN  /\ hold' = CASE r = "true" -> "skip"
                        [] r = "false" -> "consumer"
                        [] OTHER -> "raised"
           /\ chatYielded' = IF r = "false"
                             THEN Append(chatYielded, yielded[Len(yielded)].ev)
                             ELSE chatYielded
    /\ UNCHANGED <<cfgVars, pc, lstVars, trVars, chatVars, dispVars, yielded,
                   timeouts, timeout, exitBy, staleVars, twoVars, qryVars>>

\* chat(), line 108: continue, the next anext on _listen at once.
ChatContinue ==
    /\ hold = "skip"
    /\ Resume

\* The consumer asks for the next event.
Pull ==
    /\ hold = "consumer"
    /\ Resume

\* Close without the try/finally around the loops.
CloseLeak ==
    /\ \/ pc = "init" /\ hold = "none"
       \/ pc \in YieldStates /\ hold \in {"consumer", "raised"}
    /\ pc' = "closed"
    /\ hold' = "none"
    /\ exitBy' = "close"
    /\ UNCHANGED <<cfgVars, lstVars, trVars, chatVars, dispVars, yielded,
                   chatYielded, timeouts, timeout, staleVars, twoVars, qryVars>>

\* The consumer closes the generator at a yield, or one it abandoned is
\* finalised: GeneratorExit at the yield, through the finally clause when
\* the yield is inside the try (lines 186-211).
Close ==
    /\ \/ pc = "init" /\ hold = "none"
       \/ pc \in YieldStates /\ hold \in {"consumer", "raised"}
    /\ pc' = "closed"
    /\ hold' = "none"
    /\ exitBy' = "close"
    /\ IF pc \in {"init", "preyield"}
       THEN UNCHANGED trVars
       ELSE Finally
    /\ UNCHANGED <<cfgVars, lstVars, chatVars, dispVars, yielded, chatYielded,
                   timeouts, timeout, staleVars, twoVars, qryVars>>

\* The consumer's task is cancelled while the generator awaits:
\* CancelledError at the await.
Cancel ==
    /\ pc \in AwaitStates
    /\ pc' = "closed"
    /\ exitBy' = "cancel"
    /\ IF pc = "precheck"
       THEN UNCHANGED trVars
       ELSE Finally
    /\ UNCHANGED <<cfgVars, hold, lstVars, chatVars, dispVars, yielded,
                   chatYielded, timeouts, timeout, staleVars, twoVars, qryVars>>

Next ==
    \/ Start
    \/ PrecheckReturn
    \/ Deliver
    \/ Dequeue
    \/ Timeout
    \/ RepollReturn
    \/ ChatFilter
    \/ ChatContinue
    \/ Pull
    \/ Close
    \/ Cancel

Spec == Init /\ [][Next]_vars


\* The scheduling of the event loop: a coroutine that can run does run (a
\* ready dequeue, the timer of a timed dequeue, the filter and the continue
\* of chat()), the awaited state query answers, and the consumer keeps
\* pulling.
FairSpec ==
    /\ Spec
    /\ WF_vars(Start)
    /\ WF_vars(PrecheckReturn)
    /\ WF_vars(Dequeue)
    /\ WF_vars(Timeout)
    /\ WF_vars(RepollReturn)
    /\ WF_vars(ChatFilter)
    /\ WF_vars(ChatContinue)
    /\ WF_vars(Pull)

\* --------------------------------------------- the stale filter on its own

\* The cutoffs and timestamps of the filter's inputs lie around SendTime.
StaleTimes ==
    {SendTime - 86400, SendTime - 1, SendTime, SendTime + 1,
     SendTime + 1800, SendTime + 3600}

StaleOffsets == {"Z", "+00:00", "+01:00", ""}

StaleMetas ==
    {NoMeta, MetaNoTs, MetaTs(NoTs), MetaTs(EmptyTs), MetaTs(IntTs),
     MetaTs(BadTs)}
    \cup {MetaTs(StrTs(t, off)) : t \in StaleTimes, off \in StaleOffsets}

StaleCutoffs == {SendTime - 1, SendTime, SendTime + 1, SendTime + 1800}

InitStale ==
    /\ mode = "listen"
    /\ skip = FALSE
    /\ hasCheck = FALSE
    /\ pc = "init"
    /\ hold = "none"
    /\ queue = <<>>
    /\ done = FALSE
    /\ received = FALSE
    /\ registered = FALSE
    /\ addCount = 0
    /\ removeCount = 0
    /\ cutoff = 0
    /\ emitted = 0
    /\ nDelivered = 0
    /\ accepted = <<>>
    /\ late = {}
    /\ missed = {}
    /\ foreign = {}
    /\ preAnswer = ""
    /\ pollAnswer = ""
    /\ polls = 0
    /\ yielded = <<>>
    /\ chatYielded = <<>>
    /\ timeouts = 0
    /\ timeout = ""
    /\ exitBy = ""
    /\ stMeta \in StaleMetas
    /\ stCutoff \in StaleCutoffs
    /\ stResult = "unset"
    /\ calls = <<>>
    /\ log = <<>>

\* One call of _is_stale_event(event, cutoff).
CheckStale ==
    /\ stResult = "unset"
    /\ stResult' = IsStaleEvent(stMeta, stCutoff)
    /\ UNCHANGED <<cfgVars, pc, hold, lstVars, trVars, chatVars, dispVars,
                   qryVars, yielded, chatYielded, timeouts, timeout, exitBy,
                   stMeta, stCutoff, twoVars>>

NextStale == CheckStale

SpecStale == InitStale /\ [][NextStale]_vars


\* ------------------------------------- two listen calls on one transport

\* Two calls of _listen(SessionId) on one engine, no state-query
\* collaborator configured: one after the other, or overlapping.  The
\* locals of a call (queue, done, received_agent_response, the handler
\* closure over them) are created by the call (lines 155-184); calls[c]
\* holds them with the call's position, what it yielded and who ended it
\* (ended: "loop" for the code's own end, "consumer" for a close or
\* cancellation).
Calls == {1, 2}

TwoShapes ==
    { <<SESSION_TEXT_PART, Dict("hello")>>,
      <<SESSION_INPUT_STATE, Dict("waiting_input")>>,
      <<SESSION_STATE, Dict("task_finished")>> }

TwoSids == {SessionId, ""}

\* The envelopes of the n-th dispatch: the shapes with and without session
\* id, and an envelope without payload (no session id, no message id, no
\* data).
TwoEnvelopes(n) ==
    {RawEvent(sh[1], sid, n, sh[2], NoMeta) : sh \in TwoShapes, sid \in TwoSids}
    \cup {RawEvent(SESSION_TEXT_PART, "", 0, NoData, NoMeta)}

NewCall ==
    [pc |-> "init", queue |-> <<>>, done |-> FALSE, received |-> FALSE,
     registered |-> FALSE, yielded |-> <<>>, ended |-> ""]

\* A registration that takes received_agent_response from the engine's
\* other call.
RegisterCallShared(cs, c) ==
    [cs EXCEPT ![c] = [pc |-> "wait", queue |-> <<>>, done |-> FALSE,
                       received |-> \E d \in DOMAIN cs : cs[d].received,
                       registered |-> TRUE, yielded |-> <<>>, ended |-> ""]]

\* Lines 155-157, 184 and 187-190 of call c: its queue and flags are
\* created, its observer is registered, and it waits.
RegisterCall(cs, c) ==
    [cs EXCEPT ![c] = [pc |-> "wait", queue |-> <<>>, done |-> FALSE,
                       received |-> FALSE, registered |-> TRUE,
                       yielded |-> <<>>, ended |-> ""]]

\* The transport calls the observer of a call, if it is registered.
HandleAt(st, event, raw) ==
    IF st.registered
    THEN LET h == Handler([queue |-> st.queue, done |-> st.done,
                           received |-> st.received], event, raw)
         IN  [st EXCEPT !.queue = h.queue, !.done = h.done,
                        !.received = h.received]
    ELSE st

\* Lines 206-211 of a call, from the queue q.
DrainCall(st, q) ==
    LET r == SkipSentinels(q)
    IN  IF r = <<>>
        THEN [st EXCEPT !.queue = <<>>, !.pc = "closed",
                        !.registered = FALSE, !.ended = "loop"]
        ELSE [st EXCEPT !.queue = Tail(r), !.pc = "drainyield",
                        !.yielded = Append(@, Head(r))]

\* Line 187 of a call.
LoopTestCall(st) ==
    IF st.done THEN DrainCall(st, st.queue) ELSE [st EXCEPT !.pc = "wait"]

InitTwo ==
    /\ mode = "listen"
    /\ skip = FALSE
    /\ hasCheck = FALSE
    /\ pc = "init"
    /\ hold = "none"
    /\ queue = <<>>
    /\ done = FALSE
    /\ received = FALSE
    /\ registered = FALSE
    /\ addCount = 0
    /\ removeCount = 0
    /\ cutoff = 0
    /\ emitted = 0
    /\ nDelivered = 0
    /\ accepted = <<>>
    /\ late = {}
    /\ missed = {}
    /\ foreign = {}
    /\ preAnswer = ""
    /\ pollAnswer = ""
    /\ polls = 0
    /\ yielded = <<>>
    /\ chatYielded = <<>>
    /\ timeouts = 0
    /\ timeout = ""
    /\ exitBy = ""
    /\ stMeta = NoMeta
    /\ stCutoff = 0
    /\ stResult = "false"
    /\ calls = [c \in Calls |-> NewCall]
    /\ log = <<>>

oneVars == <<cfgVars, pc, hold, lstVars, trVars, chatVars, dispVars, qryVars,
             yielded, chatYielded, timeouts, timeout, exitBy, staleVars>>

\* The first anext of call c.
StartCall(c) ==
    /\ calls[c].pc = "init"
    /\ calls' = RegisterCall(calls, c)
    /\ UNCHANGED <<log, oneVars>>

\* The transport dispatches one inbound event to every registered observer.
DeliverAll ==
    /\ Len(log) < MaxEvents
    /\ \E raw \in TwoEnvelopes(Len(log) + 1) :
          /\ calls' = [c \in Calls |-> HandleAt(calls[c], raw.type, raw)]
          /\ log' = Append(log,
                [raw |-> raw, to |-> {c \in Calls : calls[c].registered}])
    /\ UNCHANGED oneVars

\* Lines 190 and 203-205 of call c.
DequeueCall(c) ==
    /\ calls[c].pc = "wait"
    /\ calls[c].queue # <<>>
    /\ calls' =
          [calls EXCEPT ![c] =
              IF Head(@.queue) = None
              THEN DrainCall(@, Tail(@.queue))
              ELSE [@ EXCEPT !.queue = Tail(@), !.pc = "yield",
                             !.yielded = Append(@, Head(calls[c].queue))]]
    /\ UNCHANGED <<log, oneVars>>

\* Lines 191-202 of call c, no collaborator configured.
TimeoutCall(c) ==
    /\ calls[c].pc = "wait"
    /\ calls[c].queue = <<>>
    /\ calls' = [calls EXCEPT ![c] = IF @.received
                                     THEN DrainCall(@, @.queue)
                                     ELSE LoopTestCall(@)]
    /\ UNCHANGED <<log, oneVars>>

\* The consumer of call c asks for the next event.
PullCall(c) ==
    /\ calls[c].pc \in {"yield", "drainyield"}
    /\ calls' = [calls EXCEPT ![c] = IF @.pc = "yield"
                                     THEN LoopTestCall(@)
                                     ELSE DrainCall(@, @.queue)]
    /\ UNCHANGED <<log, oneVars>>

\* The consumer of call c closes it, or is cancelled while it waits: the
\* finally clause runs.
EndCall(c) ==
    /\ calls[c].pc \in {"wait", "yield", "drainyield"}
    /\ calls' = [calls EXCEPT ![c] = [@ EXCEPT !.pc = "closed",
                                               !.registered = FALSE,
                                               !.ended = "consumer"]]
    /\ UNCHANGED <<log, oneVars>>

NextTwo ==
    \/ DeliverAll
    \/ \E c \in Calls : StartCall(c)
    \/ \E c \in Calls : DequeueCall(c)
    \/ \E c \in Calls : TimeoutCall(c)
    \/ \E c \in Calls : PullCall(c)
    \/ \E c \in Calls : EndCall(c)

SpecTwo == InitTwo /\ [][NextTwo]_vars


\* ------------------------------------------------------------- the claims

\* The events of a sequence of yields, and those _listen took from its queue.
Evs(ys) == [i \in 1..Len(ys) |-> ys[i].ev]
IsObserved(y) == y.src = "observer"
ObserverYielded == Evs(SelectSeq(yielded, IsObserved))

\* An accepted event that is an explicit terminal session state.
TerminalAt(i) ==
    /\ accepted[i].type = SESSION_STATE
    /\ accepted[i].data.isDict
    /\ accepted[i].data.content \in {"task_finished", "task_cancelled",
                                      "task_stale"}

\* An accepted waiting_input that follows a substantive event.
WaitingAfterResponseAt(i) ==
    /\ accepted[i].type = SESSION_INPUT_STATE
    /\ accepted[i].data.isDict
    /\ accepted[i].data.content = "waiting_input"
    /\ \E j \in 1..(i - 1) : accepted[j].type = SESSION_TEXT_PART

StopTriggers ==
    {i \in 1..Len(accepted) : TerminalAt(i) \/ WaitingAfterResponseAt(i)}

\* C1: a listen call that registered its observer invokes the removal
\* handle exactly once on every exit path: never twice, never before the
\* sequence has ended, and always once it has; a call that never registered
\* never invokes it.
C1_RemovedExactlyOnce ==
    /\ addCount <= 1
    /\ removeCount <= addCount
    /\ registered <=> (addCount = 1 /\ removeCount = 0)
    /\ pc = "closed" => removeCount = addCount
    /\ pc # "closed" => removeCount = 0

\* The consumer closes the sequence while it is draining, events still
\* queued.
C1_Witness ==
    /\ pc = "closed"
    /\ exitBy = "close"
    /\ done
    /\ queue # <<>>
    /\ Len(yielded) >= 2
    /\ removeCount = 1

\* C2: the observer-sourced events _listen yields are the events that
\* passed the session filter, in the order of their dispatch, each once:
\* at every moment a prefix of them, and all of them once the consumer has
\* pulled the sequence to its end.
C2_YieldsAcceptedInOrder ==
    /\ Len(ObserverYielded) <= Len(accepted)
    /\ ObserverYielded = SubSeq(accepted, 1, Len(ObserverYielded))
    /\ (pc = "closed" /\ exitBy \notin {"close", "cancel"})
          => ObserverYielded = accepted

\* Three events, the first two consecutive fragments, pulled to the end.
C2_Witness ==
    /\ pc = "closed"
    /\ exitBy = "done"
    /\ Len(accepted) = 3
    /\ accepted[1].type = SESSION_TEXT_PART
    /\ accepted[2].type = SESSION_TEXT_PART
    /\ ObserverYielded = accepted

\* C3: an event of another session is never yielded or enqueued, and its
\* dispatch changes nothing of the listener: not the queue, not
\* received_agent_response, not done, not the coroutine.
C3_ForeignInert ==
    /\ [](\A f \in foreign :
             /\ \A i \in 1..Len(yielded) : yielded[i].ev.message_id # f.mid
             /\ \A i \in 1..Len(queue) : queue[i].message_id # f.mid)
    /\ [][foreign' # foreign =>
             UNCHANGED <<queue, done, received, pc, hold, yielded,
                         chatYielded, trVars>>]_vars

\* A substantive event and a terminal session-state event of another
\* session were dispatched to the observer, and the listener still waits
\* for its first event.
C3_Witness ==
    /\ \E f \in foreign : f.type = SESSION_TEXT_PART
    /\ \E f \in foreign :
          f.type = SESSION_STATE /\ f.data.content = "task_finished"
    /\ registered
    /\ pc = "wait"
    /\ queue = <<>>
    /\ ~received
    /\ ~done

\* C4: the stop sentinel is never yielded, and a sequence that received a
\* stop trigger (an explicit terminal session state, or waiting_input after
\* a substantive event) ends when the consumer keeps pulling.
C4_StopEndsWithoutSentinel ==
    /\ [](\A i \in 1..Len(yielded) : yielded[i].ev.type # "None")
    /\ [](\A i \in 1..Len(chatYielded) : chatYielded[i].type # "None")
    /\ (StopTriggers # {}) ~> (pc = "closed")

\* Both triggers occurred, two sentinels were enqueued, and the sequence
\* ended with every event yielded.
C4_Witness ==
    /\ pc = "closed"
    /\ exitBy = "done"
    /\ \E i, j \in StopTriggers :
          i < j /\ WaitingAfterResponseAt(i) /\ TerminalAt(j)
    /\ ObserverYielded = accepted

\* C5 as stated: with no inbound traffic, skipPrecheck true and no
\* state-query collaborator, the sequence has ended, nothing yielded, once
\* one timed dequeue has timed out.
C5_EndsAfterOneTimeout ==
    (skip /\ ~hasCheck /\ nDelivered = 0 /\ timeouts >= 1)
       => (pc = "closed" /\ yielded = <<>>)

\* C5 as amended: with no inbound traffic, skipPrecheck true and no
\* state-query collaborator, an idle timeout does not end the loop: after
\* every timeout the call waits on its queue again, the observer still
\* registered and nothing yielded; only the consumer's cancellation ends it.
C5_KeepsWaiting ==
    (skip /\ ~hasCheck /\ nDelivered = 0 /\ timeouts >= 1)
       => /\ yielded = <<>>
          /\ \/ pc = "wait" /\ registered
             \/ pc = "closed" /\ exitBy = "cancel"

\* Two idle timeouts have passed and the call still waits.
C5_Witness ==
    /\ skip
    /\ ~hasCheck
    /\ nDelivered = 0
    /\ timeouts = 2
    /\ pc = "wait"
    /\ registered

\* C6: when the precheck query reports a terminal state, _listen yields
\* one synthesized session-state event (the requested session id, the
\* reported state as its content) and ends; the observer is never
\* registered and nothing from the transport is yielded.
C6_PrecheckTerminal ==
    preAnswer \in {"task_finished", "task_cancelled", "task_stale"} =>
       /\ ~skip /\ hasCheck
       /\ addCount = 0
       /\ ~registered
       /\ pc \in {"preyield", "closed"}
       /\ yielded =
             << [src |-> "synth",
                 ev |-> [type |-> SESSION_STATE, session_id |-> SessionId,
                         message_id |-> 0,
                         data |-> [isDict |-> TRUE, content |-> preAnswer],
                         metadata |-> NoMeta]] >>
       /\ accepted = <<>>

\* The precheck reported task_stale, the consumer pulled to the end, and
\* the transport dispatched events meanwhile.
C6_Witness ==
    /\ pc = "closed"
    /\ exitBy = "precheck"
    /\ preAnswer = "task_stale"
    /\ nDelivered >= 2
    /\ Len(yielded) = 1

\* The timestamp of the metadata is a well-formed string that names an
\* instant (it has a UTC offset, "Z" being +00:00), and the instant.
NamesInstant(meta) ==
    /\ meta.isDict
    /\ meta.hasTs
    /\ meta.ts.kind = "str"
    /\ meta.ts.wf
    /\ meta.ts.off \in {"Z", "+00:00", "+01:00"}
InstantOf(meta) ==
    IF meta.ts.off = "+01:00" THEN meta.ts.t - 3600 ELSE meta.ts.t

C8_ChatFiltersStale ==
    mode = "chat" =>
       LET seen == IF hold = "filter"
                   THEN SubSeq(yielded, 1, Len(yielded) - 1)
                   ELSE yielded
           Fresh(y) == ~(/\ NamesInstant(y.ev.metadata)
                         /\ InstantOf(y.ev.metadata) < SendTime - 5)
       IN  /\ chatYielded = Evs(SelectSeq(seen, Fresh))
           /\ skip
           /\ preAnswer = ""

\* The scenario of the test: an event stamped 24 h before the send is
\* dropped, the fragment stamped after it and the terminal event (stamped
\* 3 s before the send) are yielded.
C8_Witness ==
    /\ mode = "chat"
    /\ pc = "closed"
    /\ exitBy = "done"
    /\ Len(yielded) = 3
    /\ yielded[1].ev.metadata = MetaTs(StrTs(SendTime - 86400, "Z"))
    /\ Len(chatYielded) = 2
    /\ chatYielded[1].type = SESSION_TEXT_PART
    /\ chatYielded[1].metadata = MetaTs(StrTs(SendTime + 1, "Z"))
    /\ chatYielded[2].type = SESSION_STATE
    /\ chatYielded[2].metadata = MetaTs(StrTs(SendTime - 3, "Z"))

\* C9: with skipPrecheck true the state is not queried before the observer
\* is registered: the first step of the call registers the observer and
\* waits on the queue, and until a timed dequeue has timed out and
\* re-polled, every yielded event comes from the transport.
C9_SkipEntersActive ==
    /\ [](skip =>
            /\ preAnswer = ""
            /\ pc \notin {"precheck", "preyield"}
            /\ (polls = 0 =>
                  \A i \in 1..Len(yielded) : yielded[i].src = "observer"))
    /\ [][(skip /\ pc = "init" /\ pc' # "init" /\ pc' # "closed")
             => (pc' = "wait" /\ registered' /\ addCount' = 1)]_vars

\* The scenario of the test: a collaborator is configured, the precheck is
\* skipped, and the fragment and the terminal event of the transport are
\* yielded.
C9_Witness ==
    /\ skip
    /\ hasCheck
    /\ mode = "listen"
    /\ pc = "closed"
    /\ exitBy = "done"
    /\ Len(accepted) = 2
    /\ accepted[1].type = SESSION_TEXT_PART
    /\ TerminalAt(2)
    /\ yielded = [i \in 1..2 |-> [src |-> "observer", ev |-> accepted[i]]]

IsWaitingInput(e) ==
    /\ e.type = SESSION_INPUT_STATE
    /\ e.data.isDict
    /\ e.data.content = "waiting_input"
IsTerminalState(e) ==
    /\ e.type = SESSION_STATE
    /\ e.data.isDict
    /\ e.data.content \in {"task_finished", "task_cancelled", "task_stale"}

\* C11: a waiting_input event handled while received_agent_response is
\* false is enqueued, sets nothing and enqueues no sentinel, and the
\* coroutine stays where it is; handled after a substantive event it sets
\* done and is followed by a sentinel; a terminal session-state event sets
\* done and is followed by a sentinel whatever received_agent_response is.
C11_WaitingInputStopsOnlyAfterResponse ==
    [][Len(accepted') = Len(accepted) + 1 =>
          LET e == accepted'[Len(accepted')]
          IN  /\ (IsWaitingInput(e) /\ ~received) =>
                    /\ queue' = Append(queue, e)
                    /\ done' = done
                    /\ ~received'
                    /\ pc' = pc
                    /\ registered'
              /\ (IsWaitingInput(e) /\ received) =>
                    /\ queue' = queue \o <<e, None>>
                    /\ done'
              /\ IsTerminalState(e) =>
                    /\ queue' = queue \o <<e, None>>
                    /\ done'
                    /\ received' = received]_vars

\* waiting_input came first and was yielded without ending the call, a
\* fragment followed, and the second waiting_input ended it.
C11_Witness ==
    /\ Len(accepted) = 3
    /\ IsWaitingInput(accepted[1])
    /\ accepted[2].type = SESSION_TEXT_PART
    /\ IsWaitingInput(accepted[3])
    /\ StopTriggers = {3}
    /\ pc = "closed"
    /\ exitBy = "done"
    /\ ObserverYielded = accepted

\* C12: a timed dequeue begins with the idle timeout when no substantive
\* event has been received and with the response-idle timeout otherwise,
\* and the timeout that can elapse (the queue is empty) is the one that
\* fits received_agent_response; a timeout with received_agent_response
\* true ends the loop and, the queue being empty, the sequence: no state
\* query, nothing yielded.  So a call that received a substantive event
\* ends, the transport silent.
C12_ResponseIdleEnds ==
    /\ [][(pc' = "wait" /\ (pc # "wait" \/ timeouts' # timeouts))
             => timeout' = IF received' THEN "response_idle" ELSE "idle"]_vars
    /\ []((pc = "wait" /\ queue = <<>>)
             => timeout = IF received THEN "response_idle" ELSE "idle")
    /\ [][(timeouts' = timeouts + 1 /\ received)
             => /\ timeout = "response_idle"
                /\ pc' = "closed"
                /\ exitBy' = "response_idle"
                /\ ~registered'
                /\ UNCHANGED <<yielded, chatYielded, polls, pollAnswer>>]_vars
    /\ received ~> (pc = "closed")

\* A collaborator is configured, two fragments were yielded, and the call
\* ended on the response-idle timeout without a state query.
C12_Witness ==
    /\ hasCheck
    /\ pc = "closed"
    /\ exitBy = "response_idle"
    /\ timeout = "response_idle"
    /\ polls = 0
    /\ Len(accepted) = 2
    /\ ObserverYielded = accepted

\* The answer of a re-poll query is a non-terminal session state.
NonTerminalAnswer(r) ==
    r \notin {"task_finished", "task_cancelled", "task_stale", "error"}

\* The steps of C13: an idle timeout (no substantive event received), and
\* the answer of the re-poll query.
IdleTimeoutStep == timeouts' = timeouts + 1 /\ ~received
RepollAnswerStep == polls' = polls + 1

\* C13 as stated: on an idle timeout with a collaborator the state is
\* queried; a terminal answer yields one synthesized event and leaves the
\* loop; after a non-terminal answer, and after an idle timeout without
\* collaborator, nothing is yielded and the call waits again.
C13_RepollAsStated ==
    /\ [][(IdleTimeoutStep /\ hasCheck) => pc' = "repoll"]_vars
    /\ [][(IdleTimeoutStep /\ ~hasCheck)
             => (pc' = "wait" /\ UNCHANGED <<yielded, polls>>)]_vars
    /\ [][(RepollAnswerStep /\ pollAnswer' \in TERMINAL_STATES)
             => /\ pc' = "repollyield"
                /\ exitBy' = "repoll"
                /\ yielded' = Append(yielded,
                      [src |-> "synth",
                       ev |-> [type |-> SESSION_STATE,
                               session_id |-> SessionId, message_id |-> 0,
                               data |-> [isDict |-> TRUE,
                                         content |-> pollAnswer'],
                               metadata |-> NoMeta]])]_vars
    /\ [][(RepollAnswerStep /\ NonTerminalAnswer(pollAnswer'))
             => (pc' = "wait" /\ yielded' = yielded)]_vars
    /\ [](exitBy = "repoll" => pc \in {"repollyield", "drainyield", "closed"})

\* C13 as amended: the same, but after a non-terminal answer the call goes
\* back to the loop test: it waits again when done is still false; when the
\* observer set done while the query was pending, the loop ends and the
\* queued events are drained.
C13_RepollThenLoopTest ==
    /\ [][(IdleTimeoutStep /\ hasCheck) => pc' = "repoll"]_vars
    /\ [][(IdleTimeoutStep /\ ~hasCheck)
             => (pc' = "wait" /\ UNCHANGED <<yielded, polls>>)]_vars
    /\ [][(RepollAnswerStep /\ pollAnswer' \in TERMINAL_STATES)
             => /\ pc' = "repollyield"
                /\ exitBy' = "repoll"
                /\ yielded' = Append(yielded,
                      [src |-> "synth",
                       ev |-> [type |-> SESSION_STATE,
                               session_id |-> SessionId, message_id |-> 0,
                               data |-> [isDict |-> TRUE,
                                         content |-> pollAnswer'],
                               metadata |-> NoMeta]])]_vars
    /\ [][(RepollAnswerStep /\ NonTerminalAnswer(pollAnswer'))
             => IF done
                THEN /\ pc' = "drainyield"
                     /\ exitBy' = "done"
                     /\ Len(yielded') = Len(yielded) + 1
                     /\ yielded'[Len(yielded')].src = "observer"
                ELSE pc' = "wait" /\ yielded' = yielded]_vars
    /\ [](exitBy = "repoll" => pc \in {"repollyield", "drainyield", "closed"})

\* With the precheck skipped, a first re-poll did not end the call and it
\* waited again; the second answered task_stale, and the call ended after
\* the synthesized event.
C13_Witness ==
    /\ skip
    /\ hasCheck
    /\ timeouts = 2
    /\ polls = 2
    /\ pollAnswer = "task_stale"
    /\ exitBy = "repoll"
    /\ pc = "closed"
    /\ Len(yielded) = 1
    /\ yielded[1].src = "synth"
    /\ yielded[1].ev.data.content = "task_stale"

\* The call left its main loop by one of the loop's own exits and the
\* consumer pulled it to its end.
EndedByLoopExit ==
    /\ pc = "closed"
    /\ exitBy \in {"sentinel", "done", "response_idle", "repoll"}

\* C14: after the main loop has ended, the observer stays registered while
\* queued events are yielded, an event dispatched meanwhile is still
\* enqueued behind the rest, and when the call ends the queue is empty:
\* every accepted event was yielded, in enqueue order (those enqueued behind
\* a sentinel and those enqueued while the consumer held a drained event
\* among them), and no sentinel was.
C14_DrainsBeforeDeregistering ==
    /\ [](pc \in {"repollyield", "drainyield"} => registered)
    /\ [][late' # late
             => /\ pc' = pc
                /\ registered'
                /\ Len(queue') > Len(queue)
                /\ SubSeq(queue', 1, Len(queue)) = queue
                /\ queue'[Len(queue) + 1] = accepted'[Len(accepted')]]_vars
    /\ [](EndedByLoopExit =>
             /\ queue = <<>>
             /\ ObserverYielded = accepted
             /\ \A m \in late :
                   \E i \in 1..Len(yielded) : yielded[i].ev.message_id = m)
    /\ [](\A i \in 1..Len(yielded) : yielded[i].ev # None)

\* Three events were accepted, the second a terminal session state; the
\* third was enqueued behind the sentinel while the consumer held an event
\* yielded after the loop's end; all three were yielded and the observer
\* was deregistered.
C14_Witness ==
    /\ EndedByLoopExit
    /\ Len(accepted) = 3
    /\ TerminalAt(2)
    /\ accepted[3].message_id \in late
    /\ ObserverYielded = accepted
    /\ removeCount = 1

\* The timing data of the metadata is absent or malformed: no mapping, no
\* timestamp key, an empty timestamp, a string that does not parse, a
\* string without UTC offset, a value that is not a string.
MalformedTiming(meta) ==
    \/ ~meta.isDict
    \/ ~meta.hasTs
    \/ meta.ts.kind # "str"
    \/ ~meta.ts.wf
    \/ meta.ts.off = ""

\* C15 as stated: for every shape of absent or malformed timing data
\* _is_stale_event returns False and does not raise, so that chat() yields
\* the event.
C15_MalformedNeverRaises ==
    (stResult # "unset" /\ MalformedTiming(stMeta)) => stResult = "false"

\* The dispatches the observer of call c was handed, in order, and what the
\* call has taken from its queue or still holds there, sentinels left out.
SeenBy(c) == SelectSeq(log, LAMBDA e : c \in e.to)
NotSentinel(e) == e.type # "None"
StreamOf(c) == calls[c].yielded \o SelectSeq(calls[c].queue, NotSentinel)

\* A stop trigger at position i of a call's dispatches: a terminal session
\* state, or waiting_input after a substantive event.
StopAt(seen, i) ==
    \/ /\ seen[i].raw.type = SESSION_STATE
       /\ seen[i].raw.data.isDict
       /\ seen[i].raw.data.content \in
             {"task_finished", "task_cancelled", "task_stale"}
    \/ /\ seen[i].raw.type = SESSION_INPUT_STATE
       /\ seen[i].raw.data.isDict
       /\ seen[i].raw.data.content = "waiting_input"
       /\ \E j \in 1..(i - 1) : seen[j].raw.type = SESSION_TEXT_PART

\* C16: an event whose envelope has no session id is not discarded: it is
\* in the call's stream at its place, as an event of the requested session
\* with the envelope's message id and data and with absent metadata still
\* absent; it sets received_agent_response when it is substantive and done
\* when it is a stop trigger; and a call that ran to its own end yielded it.
C16_AbsentSessionIdAccepted ==
    \A c \in DOMAIN calls :
       LET seen == SeenBy(c)
       IN  /\ Len(StreamOf(c)) = Len(seen)
           /\ \A i \in 1..Len(seen) :
                 seen[i].raw.sid = "" =>
                    /\ StreamOf(c)[i] =
                          [type |-> seen[i].raw.type,
                           session_id |-> SessionId,
                           message_id |-> seen[i].raw.mid,
                           data |-> seen[i].raw.data,
                           metadata |-> NoMeta]
                    /\ seen[i].raw.type = SESSION_TEXT_PART
                          => calls[c].received
                    /\ StopAt(seen, i) => calls[c].done
                    /\ calls[c].ended = "loop"
                          => i <= Len(calls[c].yielded)

\* A call was handed an envelope without payload, of a substantive type,
\* and then waiting_input without session id, and ended by itself having
\* yielded both.
C16_Witness ==
    \E c \in DOMAIN calls :
       /\ Len(SeenBy(c)) = 2
       /\ \A i \in 1..2 : SeenBy(c)[i].raw.sid = ""
       /\ SeenBy(c)[1].raw.type = SESSION_TEXT_PART
       /\ SeenBy(c)[1].raw.data = NoData
       /\ SeenBy(c)[2].raw.type = SESSION_INPUT_STATE
       /\ calls[c].ended = "loop"
       /\ Len(calls[c].yielded) = 2
       /\ calls[c].yielded[1].session_id = SessionId

\* The event the observer makes of a dispatched envelope.
EventOf(e) ==
    [type |-> e.raw.type, session_id |-> SessionId,
     message_id |-> e.raw.mid, data |-> e.raw.data, metadata |-> e.raw.meta]

\* C17: the listener state is per call.  A call begins with an empty queue
\* and both flags false; from then on its flags and its stream are those of
\* the dispatches its own observer was handed, whatever the other call
\* received before or meanwhile; a step of one call changes nothing of the
\* other, and a dispatch changes nothing of a call whose observer is not
\* registered.
C17_StatePerCall ==
    /\ [](\A c \in DOMAIN calls :
             LET seen == SeenBy(c)
             IN  /\ calls[c].received <=>
                       \E i \in 1..Len(seen) :
                          seen[i].raw.type = SESSION_TEXT_PART
                 /\ calls[c].done <=> \E i \in 1..Len(seen) : StopAt(seen, i)
                 /\ StreamOf(c) = [i \in 1..Len(seen) |-> EventOf(seen[i])])
    /\ [][\A c \in DOMAIN calls :
             /\ (calls[c].pc = "init" /\ calls'[c].pc # "init")
                   => /\ calls'[c].queue = <<>>
                      /\ ~calls'[c].received
                      /\ ~calls'[c].done
             /\ (log' = log /\ calls'[c] # calls[c])
                   => \A d \in DOMAIN calls \ {c} : calls'[d] = calls[d]
             /\ (log' # log /\ ~calls[c].registered)
                   => calls'[c] = calls[c]]_vars

\* One call received a fragment before the other registered; waiting_input
\* then went to both observers: it ended the first call, and the second
\* yielded it and waits on.
C17_Witness ==
    \E c, d \in DOMAIN calls :
       /\ c # d
       /\ Len(log) = 2
       /\ log[1].raw.type = SESSION_TEXT_PART
       /\ log[1].to = {c}
       /\ log[2].raw.type = SESSION_INPUT_STATE
       /\ log[2].to = {c, d}
       /\ calls[c].received
       /\ calls[c].done
       /\ calls[c].ended = "loop"
       /\ ~calls[d].received
       /\ ~calls[d].done
       /\ calls[d].pc = "wait"
       /\ Len(calls[d].yielded) = 1

\* The dispatches the observer of the call was handed so far.
SeenCount == Len(accepted) + Cardinality(foreign)

\* C18: in chat() the step that emits the message also computes the cutoff
\* and registers the observer and ends in the first timed dequeue, and the
\* message is emitted once; so every event the transport dispatches after
\* the emit, while the call lasts, is handed to the observer.  In a listen
\* call that runs the precheck query, an event dispatched while the query
\* is pending is handed to no observer, changes nothing of the listener and
\* is never enqueued or yielded.
C18_NoGapAfterEmit ==
    /\ [][(mode = "chat" /\ emitted' # emitted)
             => /\ emitted = 0
                /\ emitted' = 1
                /\ cutoff' = SendTime - 5
                /\ registered'
                /\ addCount' = 1
                /\ pc' = "wait"]_vars
    /\ [][(mode = "chat" /\ emitted = 1 /\ pc # "closed"
              /\ nDelivered' = nDelivered + 1)
             => SeenCount' = SeenCount + 1]_vars
    /\ [](pc = "wait" => registered)
    /\ [][missed' # missed
             => /\ ~registered
                /\ UNCHANGED <<queue, done, received, accepted, foreign,
                               yielded, pc>>]_vars
    /\ [](\A m \in missed :
             /\ \A i \in 1..Len(accepted) : accepted[i].message_id # m
             /\ \A i \in 1..Len(queue) : queue[i].message_id # m
             /\ \A i \in 1..Len(yielded) : yielded[i].ev.message_id # m)

\* The emit of chat() was followed by three dispatches, and the observer
\* was handed each of them.
C18_Witness ==
    /\ mode = "chat"
    /\ emitted = 1
    /\ nDelivered = 3
    /\ SeenCount = 3
    /\ Len(accepted) = 2

\* A listen call's precheck answered "working" after an event was
\* dispatched; the event after it was yielded, the one before it is lost.
C18_WitnessPrecheck ==
    /\ mode = "listen"
    /\ preAnswer = "working"
    /\ missed = {1}
    /\ Len(accepted) = 1
    /\ accepted[1].message_id = 2
    /\ Len(yielded) = 1
    /\ pc = "yield"

\* An accepted event that chat() drops as stale: its timestamp names an
\* instant more than the grace before the send.
StaleAt(i) ==
    /\ NamesInstant(accepted[i].metadata)
    /\ InstantOf(accepted[i].metadata) < SendTime - 5

\* C19: the stale filter of chat() decides only what chat() yields.  Its
\* step changes nothing of the listener, and the observer has treated a
\* stale event as any other: a stale substantive event has set
\* received_agent_response (the next wait has the response-idle timeout)
\* and a stale terminal session state has set done; every stale event was
\* enqueued for _listen to yield, and none is yielded by chat().
C19_StaleEventsStillDriveListener ==
    /\ [][(hold = "filter" /\ hold' # "filter")
             => UNCHANGED <<queue, done, received, pc, timeout, registered,
                            yielded, removeCount, exitBy>>]_vars
    /\ [](mode = "chat" =>
             /\ received <=>
                   \E i \in 1..Len(accepted) :
                      accepted[i].type = SESSION_TEXT_PART
             /\ done <=> StopTriggers # {}
             /\ \A i \in 1..Len(accepted) :
                   StaleAt(i) =>
                      /\ accepted[i].type = SESSION_TEXT_PART => received
                      /\ TerminalAt(i) => done
                      /\ \A j \in 1..Len(chatYielded) :
                            chatYielded[j] # accepted[i]
             /\ (pc = "wait" /\ queue = <<>> /\ received)
                   => timeout = "response_idle")
    /\ [](Len(ObserverYielded) <= Len(accepted)
          /\ ObserverYielded = SubSeq(accepted, 1, Len(ObserverYielded)))

\* chat() ended having yielded nothing: the only events were a stale
\* fragment and a stale terminal session state, which ended the sequence.
C19_Witness ==
    /\ mode = "chat"
    /\ pc = "closed"
    /\ exitBy = "done"
    /\ Len(accepted) = 2
    /\ StaleAt(1)
    /\ accepted[1].type = SESSION_TEXT_PART
    /\ StaleAt(2)
    /\ TerminalAt(2)
    /\ Len(yielded) = 2
    /\ chatYielded = <<>>

\* A stop has been decided: the observer set done, or the loop was left by
\* a response-idle timeout, a terminal re-poll or a dequeued sentinel.
StopDecided ==
    done \/ exitBy \in {"sentinel", "done", "response_idle", "repoll"}

\* C20: once a stop has been decided no timed dequeue begins, none times
\* out and no state query is started: the wait or the query that was
\* pending when the observer set done is the last one (the wait ends with
\* the queued event), and from the loop's end on the call only yields what
\* is queued and deregisters.
C20_NoWaitAfterStop ==
    /\ [][StopDecided
             => /\ timeouts' = timeouts
                /\ pc' = "wait" => (pc = "wait" /\ timeout' = timeout)
                /\ pc' = "repoll" => pc = "repoll"
                /\ pc' # "precheck"]_vars
    /\ [](exitBy \in {"sentinel", "done", "response_idle", "repoll"}
             => pc \in {"repollyield", "drainyield", "closed"})
    /\ []((done /\ pc = "wait") => queue # <<>>)
    /\ [][(StopDecided /\ pc \in {"repollyield", "drainyield"}
              /\ pc' # pc)
             => pc' \in {"drainyield", "closed"}]_vars

\* The observer set done while a re-poll query was pending; the query has
\* answered a non-terminal state and the call drains its queue without
\* another wait.
C20_Witness ==
    /\ done
    /\ polls = 1
    /\ pollAnswer = "working"
    /\ timeouts = 1
    /\ exitBy = "done"
    /\ pc = "drainyield"
    /\ Len(yielded) = 1

=============================================================================
